---- MODULE Spec2Model ----
(***************************************************************************)
(* nuget-rs: the nupkg assembler (src/nuget/pack.rs) and the dev-tag       *)
(* helper (src/cargo/version.rs).                                          *)
(*                                                                         *)
(* Strings are sequences of tokens.  A token is one character where the    *)
(* code looks inside the string (the characters of a package id or of a    *)
(* library file name, "." above all) and an opaque literal elsewhere       *)
(* ("runtimes", "win-x64", "nuspec").  A PathBuf is a sequence of          *)
(* components, each a string; to_string_lossy joins them with "/".         *)
(***************************************************************************)
EXTENDS Integers, Sequences, FiniteSets, TLC

VARIABLES
    args,        \* NugetPackArgs: [id, version, spec, cargo_libs]
    order,       \* iteration order of the HashMap args.cargo_libs
    fs,          \* the file system: library file name -> contents or NoFile
    fault,       \* the step (if any) whose fallible call returns an error
    pc,          \* position inside pack
    pkgs,        \* Vec<(rid, path)> of line 37
    writer,      \* "none" | "open" | "finished": the ZipWriter
    entries,     \* the archive entries written so far: <<[path, data]>>
    nuspec_path, \* the PathBuf of lines 54-60
    idx,         \* position of the for loop of line 68 (next element of pkgs)
    opened,      \* every path handed to File::open so far
    finishes,    \* number of calls of writer.finish()
    result,      \* what pack returned: [tag |-> "none" | "Ok" | "Err", ...]
    calls,       \* number of calls of pack made with these inputs
    prev,        \* result of the previous call of pack with these inputs
    ver,         \* semver Version handed to add_pretag
    ver0,        \* that Version before the call
    tag,         \* add_pretag's tag argument
    num,         \* add_pretag's num argument
    text,        \* local_version_tag's version string: its argument, then its result
    vpc          \* "add_pretag" | "local_version_tag" (the call to make) | "done" | "err"

packVars == <<args, order, fs, fault, pc, pkgs, writer, entries, nuspec_path,
              idx, opened, finishes, result, calls, prev>>
verVars == <<ver, ver0, tag, num, text, vpc>>
vars == <<args, order, fs, fault, pc, pkgs, writer, entries, nuspec_path,
          idx, opened, finishes, result, calls, prev, ver, ver0, tag, num, text, vpc>>

(***************************************************************************)
(* Bounds and input sets                                                   *)
(***************************************************************************)
MaxIdLen == 3
MaxCalls == 2
MaxNum == 2
MaxPre == 2

Dot == "."
IdChars == {"f", Dot}

RECURSIVE StringsUpTo(_, _)
StringsUpTo(chars, n) ==
    IF n = 0 THEN {<< >>}
    ELSE LET shorter == StringsUpTo(chars, n - 1)
         IN  shorter \cup {Append(s, c) : s \in shorter, c \in chars}

\* Package ids: non-empty, and a file name ("." and ".." are directory
\* references, not names).
Ids == StringsUpTo(IdChars, MaxIdLen) \ {<< >>, <<Dot>>, <<Dot, Dot>>}
Versions == {<<"1.2.3">>}
Bufs == {<<"01">>, <<"02", "01">>}
LibPaths == {<<"x", Dot, "so">>, <<"y">>}
NoFile == <<"ENOENT">>

Last(s) == s[Len(s)]
Front(s) == SubSeq(s, 1, Len(s) - 1)

Perms(S) ==
    {p \in [1..Cardinality(S) -> S] : \A a, b \in 1..Cardinality(S) : p[a] = p[b] => a = b}

(***************************************************************************)
(* args::Target                                                            *)
(***************************************************************************)
Targets == {"WindowsX64", "LinuxX64", "Unknown"}
TargetEnum == <<"WindowsX64", "LinuxX64", "Unknown">>

is_unknown(target) == target = "Unknown"

rid(target) ==
    CASE target = "WindowsX64" -> <<"win-x64">>
      [] target = "LinuxX64"   -> <<"linux-x64">>
      [] OTHER                 -> <<"unknown">>

(***************************************************************************)
(* std::path as pack uses it                                               *)
(***************************************************************************)
\* Index of the last "." of a file name, 0 when it has none.
RECURSIVE LastDotFrom(_, _)
LastDotFrom(name, k) ==
    IF k = 0 THEN 0
    ELSE IF name[k] = Dot THEN k
    ELSE LastDotFrom(name, k - 1)

LastDot(name) == LastDotFrom(name, Len(name))

\* Path::file_name, on a PathBuf of components.
HasFileName(path) ==
    /\ Len(path) > 0
    /\ Last(path) \notin {<<Dot>>, <<Dot, Dot>>}

\* Path::extension / Path::file_stem split the file name at its last ".",
\* unless that "." is the first character.
HasExtension(name) == LastDot(name) > 1
Extension(name) == SubSeq(name, LastDot(name) + 1, Len(name))
FileStem(name) == IF HasExtension(name) THEN SubSeq(name, 1, LastDot(name) - 1) ELSE name

Push(path, component) == Append(path, component)

SetFileName(path, name) ==
    IF HasFileName(path) THEN Push(Front(path), name) ELSE Push(path, name)

SetExtension(path, extension) ==
    IF ~HasFileName(path) THEN path
    ELSE SetFileName(path,
             FileStem(Last(path))
                 \o (IF extension = << >> THEN << >> ELSE <<Dot>> \o extension))

RECURSIVE ToStringLossy(_)
ToStringLossy(path) ==
    IF Len(path) = 0 THEN << >>
    ELSE IF Len(path) = 1 THEN path[1]
    ELSE ToStringLossy(Front(path)) \o <<"/">> \o Last(path)

(***************************************************************************)
(* nuget::util::openxml                                                    *)
(***************************************************************************)
\* openxml::relationships: the entry `_rels/.rels`, whose document refers to
\* the manifest entry.
relationships(path) ==
    [path |-> <<<<"_rels">>, <<Dot, "rels">>>>,
     xml  |-> <<"<Relationship Target=">> \o ToStringLossy(path) \o <<"/>">>]

\* openxml::content_types: the entry `[Content_Types].xml`.
content_types ==
    [path |-> <<<<"[Content_Types]", Dot, "xml">>>>,
     xml  |-> <<"<Types/>">>]

(***************************************************************************)
(* nuget::pack                                                             *)
(***************************************************************************)
Faults == {"none", "rels", "content_types", "nuspec", "finish"}

LibSets == UNION {[S -> LibPaths] : S \in SUBSET Targets}

NoResult == [tag |-> "none"]
Err(kind) == [tag |-> "Err", kind |-> kind]

\* FilterMap without the is_unknown test.
RECURSIVE FilterMapKeepUnknown(_, _)
FilterMapKeepUnknown(ord, libs) ==
    IF Len(ord) = 0 THEN << >>
    ELSE Append(FilterMapKeepUnknown(Front(ord), libs),
                [rid |-> rid(Last(ord)), path |-> libs[Last(ord)]])

\* lines 37-46: filter_map over the map's iterator, in the map's order.
RECURSIVE FilterMap(_, _)
FilterMap(ord, libs) ==
    IF Len(ord) = 0 THEN << >>
    ELSE LET rest == FilterMap(Front(ord), libs)
             target == Last(ord)
         IN  IF is_unknown(target) THEN rest
             ELSE Append(rest, [rid |-> rid(target), path |-> libs[target]])

\* lines 54-60
NuspecPath(id) == SetExtension(SetFileName(<< >>, id), <<"nuspec">>)

\* lines 100-108
LibEntryPath(id, r, lib_path) ==
    LET path == Push(Push(Push(Push(<< >>, <<"runtimes">>), r), <<"native">>), id)
    IN  IF HasExtension(lib_path) THEN SetExtension(path, Extension(lib_path)) ELSE path

\* WriteLibError naming the first target of the loop, not the failing one.
WriteLibErrorFirst(pkg, e) ==
    [tag |-> "Err", kind |-> "WriteLib", rid |-> pkgs[1].rid, lib_path |-> pkgs[1].path,
     err |-> e]

\* lines 69-75: the error of one library, with the target it belongs to.
WriteLibError(pkg, e) ==
    [tag |-> "Err", kind |-> "WriteLib", rid |-> pkg.rid, lib_path |-> pkg.path, err |-> e]

\* MakeNupkg collecting the rids back to front.
MakeNupkgReversed(a, ps, buf) ==
    [tag  |-> "Ok",
     name |-> a.id \o <<Dot>> \o a.version \o <<Dot, "nupkg">>,
     rids |-> [k \in 1..Len(ps) |-> ps[Len(ps) + 1 - k].rid],
     buf  |-> buf]

\* lines 80-87
MakeNupkg(a, ps, buf) ==
    [tag  |-> "Ok",
     name |-> a.id \o <<Dot>> \o a.version \o <<Dot, "nupkg">>,
     rids |-> [k \in 1..Len(ps) |-> ps[k].rid],
     buf  |-> buf]

\* WriteAll that stops after the first byte.
WriteAllShort(es, bytes) == [es EXCEPT ![Len(es)].data = @ \o SubSeq(bytes, 1, 1)]

\* ZipWriter::start_file followed by the payload written into that entry.
StartFile(es, path) == Append(es, [path |-> ToStringLossy(path), data |-> << >>])
WriteAll(es, bytes) == [es EXCEPT ![Len(es)].data = @ \o bytes]

TypeOK ==
    /\ args \in [id : Ids, version : Versions, spec : Bufs, cargo_libs : LibSets]
    /\ order \in Perms(DOMAIN args.cargo_libs)
    /\ fs \in [LibPaths -> Bufs \cup {NoFile}]
    /\ fault \in Faults
    /\ pc \in {"start", "open", "rels", "content_types", "nuspec", "libs", "finish", "return", "done"}
    /\ writer \in {"none", "open", "finished"}
    /\ idx \in 1..(Len(pkgs) + 1)
    /\ finishes \in 0..1
    /\ result.tag \in {"none", "Ok", "Err"}
    /\ calls \in 1..MaxCalls

FreshCall ==
    /\ pc = "start"
    /\ pkgs = << >>
    /\ writer = "none"
    /\ entries = << >>
    /\ nuspec_path = << >>
    /\ idx = 1
    /\ opened = << >>
    /\ finishes = 0
    /\ result = NoResult

VerIdle ==
    /\ ver = [major |-> 0, minor |-> 0, patch |-> 0, pre |-> << >>, build |-> << >>]
    /\ ver0 = ver
    /\ tag = "dev"
    /\ num = 0
    /\ text = << >>
    /\ vpc = "done"

Init ==
    /\ args \in [id : Ids, version : Versions, spec : Bufs, cargo_libs : LibSets]
    /\ order \in Perms(DOMAIN args.cargo_libs)
    /\ fs \in [LibPaths -> Bufs \cup {NoFile}]
    /\ fault \in Faults
    /\ FreshCall
    /\ calls = 1
    /\ prev = NoResult
    /\ VerIdle

\* lines 37-50
FilterTargets ==
    /\ pc = "start"
    /\ pkgs' = FilterMap(order, args.cargo_libs)
    /\ IF Len(pkgs') = 0
       THEN /\ result' = Err("NoValidTargets")
            /\ pc' = "done"
       ELSE /\ result' = result
            /\ pc' = "open"
    /\ UNCHANGED <<args, order, fs, fault, writer, entries, nuspec_path, idx, opened,
                   finishes, calls, prev>>
    /\ UNCHANGED verVars

\* lines 52-60
OpenWriter ==
    /\ pc = "open"
    /\ writer' = "open"
    /\ nuspec_path' = NuspecPath(args.id)
    /\ pc' = "rels"
    /\ UNCHANGED <<args, order, fs, fault, pkgs, entries, idx, opened, finishes, result,
                   calls, prev>>
    /\ UNCHANGED verVars

\* line 62, lines 119-129
WriteRels ==
    /\ pc = "rels"
    /\ IF fault = "rels"
       THEN /\ result' = Err("Xml")
            /\ pc' = "done"
            /\ entries' = entries
       ELSE /\ entries' = WriteAll(StartFile(entries, relationships(nuspec_path).path),
                                   relationships(nuspec_path).xml)
            /\ pc' = "content_types"
            /\ result' = result
    /\ UNCHANGED <<args, order, fs, fault, pkgs, writer, nuspec_path, idx, opened,
                   finishes, calls, prev>>
    /\ UNCHANGED verVars

\* line 63, lines 132-142
WriteContentTypes ==
    /\ pc = "content_types"
    /\ IF fault = "content_types"
       THEN /\ result' = Err("Xml")
            /\ pc' = "done"
            /\ entries' = entries
       ELSE /\ entries' = WriteAll(StartFile(entries, content_types.path), content_types.xml)
            /\ pc' = "nuspec"
            /\ result' = result
    /\ UNCHANGED <<args, order, fs, fault, pkgs, writer, nuspec_path, idx, opened,
                   finishes, calls, prev>>
    /\ UNCHANGED verVars

\* lines 65-66
WriteNuspec ==
    /\ pc = "nuspec"
    /\ IF fault = "nuspec"
       THEN /\ result' = Err("Zip")
            /\ pc' = "done"
            /\ entries' = entries
       ELSE /\ entries' = WriteAll(StartFile(entries, nuspec_path), args.spec)
            /\ pc' = "libs"
            /\ result' = result
    /\ UNCHANGED <<args, order, fs, fault, pkgs, writer, nuspec_path, idx, opened,
                   finishes, calls, prev>>
    /\ UNCHANGED verVars

\* WriteLib without the `?` of line 75: the error is noted and the loop goes on.
WriteLibKeepGoing ==
    /\ pc = "libs"
    /\ idx <= Len(pkgs)
    /\ LET pkg == pkgs[idx]
           started == StartFile(entries, LibEntryPath(args.id, pkg.rid, pkg.path))
       IN  /\ opened' = Append(opened, pkg.path)
           /\ IF fs[pkg.path] = NoFile
              THEN /\ entries' = started
                   /\ result' = WriteLibError(pkg, "Io")
              ELSE /\ entries' = WriteAll(started, fs[pkg.path])
                   /\ result' = result
           /\ idx' = idx + 1
           /\ pc' = IF idx' > Len(pkgs) THEN "finish" ELSE "libs"
    /\ UNCHANGED <<args, order, fs, fault, pkgs, writer, nuspec_path, finishes, calls, prev>>
    /\ UNCHANGED verVars

\* lines 68-76, one iteration: write_lib (lines 91-116) and the map_err
WriteLib ==
    /\ pc = "libs"
    /\ idx <= Len(pkgs)
    /\ LET pkg == pkgs[idx]
           started == StartFile(entries, LibEntryPath(args.id, pkg.rid, pkg.path))
       IN  /\ opened' = Append(opened, pkg.path)
           /\ IF fs[pkg.path] = NoFile
              THEN /\ entries' = started
                   /\ result' = WriteLibError(pkg, "Io")
                   /\ pc' = "done"
                   /\ idx' = idx
              ELSE /\ entries' = WriteAll(started, fs[pkg.path])
                   /\ result' = result
                   /\ idx' = idx + 1
                   /\ pc' = IF idx' > Len(pkgs) THEN "finish" ELSE "libs"
    /\ UNCHANGED <<args, order, fs, fault, pkgs, writer, nuspec_path, finishes, calls, prev>>
    /\ UNCHANGED verVars

\* line 78
Finish ==
    /\ pc = "finish"
    /\ finishes' = finishes + 1
    /\ IF fault = "finish"
       THEN /\ result' = Err("Zip")
            /\ pc' = "done"
            /\ writer' = writer
       ELSE /\ writer' = "finished"
            /\ pc' = "return"
            /\ result' = result
    /\ UNCHANGED <<args, order, fs, fault, pkgs, entries, nuspec_path, idx, opened,
                   calls, prev>>
    /\ UNCHANGED verVars

\* lines 80-87
Return ==
    /\ pc = "return"
    /\ result' = MakeNupkg(args, pkgs, entries)
    /\ pc' = "done"
    /\ UNCHANGED <<args, order, fs, fault, pkgs, writer, entries, nuspec_path, idx, opened,
                   finishes, calls, prev>>
    /\ UNCHANGED verVars

\* A further call of pack with an equal request, the same files and the same
\* faults; the request's HashMap is a new map with its own iteration order.
Repeat ==
    /\ pc = "done"
    /\ calls < MaxCalls
    /\ calls' = calls + 1
    /\ prev' = result
    /\ order' \in Perms(DOMAIN args.cargo_libs)
    /\ pc' = "start"
    /\ pkgs' = << >>
    /\ writer' = "none"
    /\ entries' = << >>
    /\ nuspec_path' = << >>
    /\ idx' = 1
    /\ opened' = << >>
    /\ finishes' = 0
    /\ result' = NoResult
    /\ UNCHANGED <<args, fs, fault>>
    /\ UNCHANGED verVars

Next ==
    \/ FilterTargets
    \/ OpenWriter
    \/ WriteRels
    \/ WriteContentTypes
    \/ WriteNuspec
    \/ WriteLib
    \/ Finish
    \/ Return

Spec == Init /\ [][Next]_vars

NextTwice == Next \/ Repeat

SpecTwice == Init /\ [][NextTwice]_vars

(***************************************************************************)
(* cargo::version                                                          *)
(***************************************************************************)
Numeric(n) == [kind |-> "Numeric", val |-> ToString(n)]
AlphaNumeric(str) == [kind |-> "AlphaNumeric", val |-> str]

Identifiers == {Numeric(1), AlphaNumeric("carrots"), AlphaNumeric("carrots1")}
Tags == {"dev", "local"}

SeqsUpTo(S, n) == UNION {[1..k -> S] : k \in 0..n}

SemVers ==
    [major : {0}, minor : 0..1, patch : 0..1,
     pre : SeqsUpTo(Identifiers, MaxPre), build : SeqsUpTo({Numeric(1)}, 1)]

\* Display of a list of identifiers: joined with ".".
RECURSIVE JoinIds(_)
JoinIds(ids) ==
    IF Len(ids) = 0 THEN << >>
    ELSE IF Len(ids) = 1 THEN <<ids[1].val>>
    ELSE JoinIds(Front(ids)) \o <<Dot, Last(ids).val>>

\* Display for semver::Version (line 31)
VersionToString(v) ==
    <<ToString(v.major), Dot, ToString(v.minor), Dot, ToString(v.patch)>>
        \o (IF Len(v.pre) = 0 THEN << >> ELSE <<"-">> \o JoinIds(v.pre))
        \o (IF Len(v.build) = 0 THEN << >> ELSE <<"+">> \o JoinIds(v.build))

\* Version::parse (line 19): the version a string displays, if it is one.
Parses(str) == \E v \in SemVers : VersionToString(v) = str
VersionParse(str) == CHOOSE v \in SemVers : VersionToString(v) = str

\* add_pretag without the test of ver.pre.len().
add_pretag_always_tag(v, t, n) ==
    [v EXCEPT !.pre = Append(Append(v.pre, AlphaNumeric(t)), Numeric(n)), !.build = << >>]

\* lines 35-43
add_pretag(v, t, n) ==
    LET tagged == IF Len(v.pre) = 0 THEN Append(v.pre, AlphaNumeric(t)) ELSE v.pre
    IN  [v EXCEPT !.pre = Append(tagged, Numeric(n)), !.build = << >>]

PackIdle ==
    /\ args = [id |-> <<"f">>, version |-> <<"1.2.3">>, spec |-> <<"01">>,
               cargo_libs |-> << >>]
    /\ order = << >>
    /\ fs = [p \in LibPaths |-> NoFile]
    /\ fault = "none"
    /\ pkgs = << >>
    /\ writer = "none"
    /\ entries = << >>
    /\ nuspec_path = << >>
    /\ idx = 1
    /\ opened = << >>
    /\ finishes = 0
    /\ result = NoResult
    /\ pc = "done"
    /\ calls = 1
    /\ prev = NoResult

InitVer ==
    /\ ver0 \in SemVers
    /\ ver = ver0
    /\ tag \in Tags
    /\ num \in 0..MaxNum
    /\ vpc \in {"add_pretag", "local_version_tag"}
    /\ text \in {VersionToString(ver0), <<"1">>}
    /\ PackIdle

\* The tests' calls of add_pretag (lines 65-90)
AddPretag ==
    /\ vpc = "add_pretag"
    /\ ver' = add_pretag(ver, tag, num)
    /\ vpc' = "done"
    /\ UNCHANGED <<ver0, tag, num, text>>
    /\ UNCHANGED packVars

\* lines 16-33; now is UTC::now().timestamp()
LocalVersionTag ==
    /\ vpc = "local_version_tag"
    /\ \E now \in -1..MaxNum :
          IF ~Parses(text) \/ now < 0
          THEN /\ vpc' = "err"
               /\ UNCHANGED <<ver, ver0, tag, num, text>>
          ELSE /\ ver0' = VersionParse(text)
               /\ tag' = "dev"
               /\ num' = now
               /\ ver' = add_pretag(ver0', tag', num')
               /\ text' = VersionToString(ver')
               /\ vpc' = "done"
    /\ UNCHANGED packVars

NextVer ==
    \/ AddPretag
    \/ LocalVersionTag

SpecVer == InitVer /\ [][NextVer]_vars

(***************************************************************************)
(* Properties                                                              *)
(***************************************************************************)
Packageable == {t \in DOMAIN args.cargo_libs : ~is_unknown(t)}
Unreadable == {t \in Packageable : fs[args.cargo_libs[t]] = NoFile}
Returned == pc = "done"

IsPrefix(p, s) == Len(p) <= Len(s) /\ SubSeq(s, 1, Len(p)) = p

\* The directory of a target's library inside the archive.
LibDir(r) == <<"runtimes", "/">> \o r \o <<"/", "native", "/">>
IsLibEntry(e) == IsPrefix(<<"runtimes", "/">>, e.path)
LibEntries(es, r) == {k \in 1..Len(es) : IsPrefix(LibDir(r), es[k].path)}
\* The runtime identifier in the path of a library entry.
EntryRid(e) == <<e.path[3]>>

\* C1: a request whose library set is empty or holds only the Unknown target
\* ends in NoValidTargets, and at no point of the call is the archive writer
\* created, an entry started or a file opened.
C1_NoValidTargets ==
    Packageable = {} =>
        /\ writer = "none"
        /\ entries = << >>
        /\ opened = << >>
        /\ finishes = 0
        /\ pc \in {"start", "done"}
        /\ Returned => result = Err("NoValidTargets")

C1_Witness ==
    /\ Returned
    /\ DOMAIN args.cargo_libs = {"Unknown"}
    /\ result = Err("NoValidTargets")

\* C2: with two or more packageable targets of which exactly one has a source
\* file that cannot be opened (and no step before the libraries failing), pack
\* returns WriteLib carrying that target's rid and path, and no Nupkg.
C2_WriteLibNamesTarget ==
    ( /\ Returned
      /\ Cardinality(Packageable) >= 2
      /\ Cardinality(Unreadable) = 1
      /\ fault \in {"none", "finish"} )
    => \E t \in Unreadable :
          result = [tag |-> "Err", kind |-> "WriteLib", rid |-> rid(t),
                    lib_path |-> args.cargo_libs[t], err |-> "Io"]

C2_Witness ==
    /\ Returned
    /\ Packageable = {"WindowsX64", "LinuxX64"}
    /\ Unreadable = {"LinuxX64"}
    /\ args.cargo_libs["WindowsX64"] # args.cargo_libs["LinuxX64"]
    /\ order[1] = "WindowsX64"
    /\ result.tag = "Err"
    /\ result.kind = "WriteLib"
    /\ result.rid = <<"linux-x64">>

\* C3: with at least one packageable target, every source file readable and
\* no other step failing, pack succeeds; the archive has 3 + n entries, one
\* library entry per included target holding the bytes of its source file,
\* and none for any other target.
C3_OneLibPerTarget ==
    ( /\ Returned
      /\ Packageable # {}
      /\ Unreadable = {}
      /\ fault = "none" )
    => /\ result.tag = "Ok"
       /\ Len(result.buf) = 3 + Cardinality(Packageable)
       /\ Cardinality({k \in 1..Len(result.buf) : IsLibEntry(result.buf[k])})
              = Cardinality(Packageable)
       /\ \A t \in Targets :
             IF t \in Packageable
             THEN /\ Cardinality(LibEntries(result.buf, rid(t))) = 1
                  /\ \A k \in LibEntries(result.buf, rid(t)) :
                        result.buf[k].data = fs[args.cargo_libs[t]]
             ELSE LibEntries(result.buf, rid(t)) = {}

C3_Witness ==
    /\ Returned
    /\ result.tag = "Ok"
    /\ DOMAIN args.cargo_libs = Targets
    /\ Len(result.buf) = 5
    /\ fs[args.cargo_libs["WindowsX64"]] # fs[args.cargo_libs["LinuxX64"]]

\* C4: on success the archive holds an entry at `{id}.nuspec`, the full id
\* followed by the manifest extension, whose payload is the manifest buffer.
C4_ManifestAtIdNuspec ==
    (Returned /\ result.tag = "Ok")
    => \E k \in 1..Len(result.buf) :
          /\ result.buf[k].path = args.id \o <<Dot, "nuspec">>
          /\ result.buf[k].data = args.spec

\* C5: every library entry is at `runtimes/{rid}/native/{id}{ext}`: the full
\* id followed by "." and the source file's extension when it has one, and
\* the id alone when it has none.
C5_LibPathKeepsId ==
    \A k \in 1..Len(pkgs) :
        3 + k <= Len(entries) =>
            entries[3 + k].path =
                LibDir(pkgs[k].rid) \o args.id
                    \o (IF HasExtension(pkgs[k].path)
                        THEN <<Dot>> \o Extension(pkgs[k].path)
                        ELSE << >>)

\* The packageable targets of the request, in the order of the Target
\* enumeration.
CanonicalRids ==
    LET keep(t) == t \in Packageable
        ts == SelectSeq(TargetEnum, keep)
    IN  [k \in 1..Len(ts) |-> rid(ts[k])]

\* C6: the rids of the returned package are in the order of the Target
\* enumeration, whatever the order of the map.
C6_CanonicalOrder ==
    (Returned /\ result.tag = "Ok") => result.rids = CanonicalRids

\* C7: the rids of a returned Nupkg are non-empty and are, element by element,
\* the runtime identifiers of the library entries of the archive, which are
\* those of the packageable targets; Unknown contributes none.
C7_RidsMirrorEntries ==
    (Returned /\ result.tag = "Ok")
    => /\ Len(result.rids) > 0
       /\ Len(result.buf) = 3 + Len(result.rids)
       /\ \A k \in 1..Len(result.rids) :
             /\ IsLibEntry(result.buf[3 + k])
             /\ result.rids[k] = EntryRid(result.buf[3 + k])
       /\ {result.rids[k] : k \in 1..Len(result.rids)} = {rid(t) : t \in Packageable}
       /\ Len(result.rids) = Cardinality(Packageable)

C7_Witness ==
    /\ Returned
    /\ result.tag = "Ok"
    /\ DOMAIN args.cargo_libs = Targets
    /\ result.rids = <<<<"linux-x64">>, <<"win-x64">>>>

\* C8: a second call of pack with an equal request, the same files and the
\* same faults returns what the first call returned: the same name, rids and
\* sequence of entry paths and payloads.
C8_Deterministic ==
    (Returned /\ calls >= 2) => result = prev

\* C9: add_pretag appends Numeric(num) as the last pre-release identifier,
\* puts the tag before it only when there was no pre-release identifier,
\* keeps the existing ones otherwise, clears the build metadata and keeps
\* major, minor and patch.
C9_AddPretag ==
    vpc = "done" =>
        /\ ver.major = ver0.major
        /\ ver.minor = ver0.minor
        /\ ver.patch = ver0.patch
        /\ ver.build = << >>
        /\ Len(ver.pre) > 0
        /\ Last(ver.pre) = Numeric(num)
        /\ Front(ver.pre) = (IF Len(ver0.pre) = 0 THEN <<AlphaNumeric(tag)>> ELSE ver0.pre)
        /\ VersionToString(ver) =
              <<ToString(ver0.major), Dot, ToString(ver0.minor), Dot, ToString(ver0.patch), "-">>
                  \o (IF Len(ver0.pre) = 0 THEN <<tag>> ELSE JoinIds(ver0.pre))
                  \o <<Dot, ToString(num)>>

\* 0.0.1-carrots+1 becomes 0.0.1-carrots.2
C9_Witness ==
    /\ vpc = "done"
    /\ ver0 = [major |-> 0, minor |-> 0, patch |-> 1,
               pre |-> <<AlphaNumeric("carrots")>>, build |-> <<Numeric(1)>>]
    /\ num = 2
    /\ VersionToString(ver) = <<"0", Dot, "0", Dot, "1", "-", "carrots", Dot, "2">>

\* The entries of a run so far are the leading ones of: relationships,
\* content types, manifest, then the libraries in the order of pkgs.
EntriesInOrder ==
    /\ Len(entries) <= 3 + Len(pkgs)
    /\ \A k \in 1..Len(entries) :
          CASE k = 1 -> entries[k].path = <<"_rels", "/", Dot, "rels">>
            [] k = 2 -> entries[k].path = <<"[Content_Types]", Dot, "xml">>
            [] k = 3 -> /\ entries[k].path = ToStringLossy(nuspec_path)
                        /\ entries[k].data = args.spec
            [] OTHER -> IsPrefix(LibDir(pkgs[k - 3].rid), entries[k].path)

\* Every library has been written, with the bytes of its source.
AllLibsWritten ==
    /\ Len(entries) = 3 + Len(pkgs)
    /\ idx = Len(pkgs) + 1
    /\ \A k \in 1..Len(pkgs) : entries[3 + k].data = fs[pkgs[k].path]
    /\ \A k \in 1..Len(pkgs) : fs[pkgs[k].path] # NoFile

C10_State ==
    /\ writer # "none" => EntriesInOrder
    /\ writer = "none" => entries = << >>
    /\ finishes <= 1
    /\ finishes = 1 => AllLibsWritten
    /\ writer = "finished" => finishes = 1
    /\ result.tag = "Ok" => /\ writer = "finished"
                            /\ result.buf = entries
    /\ result.tag = "Err" => writer # "finished"

\* Once a step has failed nothing more happens to the archive, and entries
\* are only ever added at the end, one at a time.
C10_Step ==
    /\ result.tag = "Err" => /\ entries' = entries
                             /\ finishes' = finishes
                             /\ result' = result
    /\ entries' # entries => /\ Len(entries') = Len(entries) + 1
                             /\ SubSeq(entries', 1, Len(entries)) = entries

\* C10: in a run that opens the writer the entries are started in the order
\* relationships, content types, manifest, libraries; the first failing step
\* ends the run, so no later entry is started; finish is called at most once
\* and only after every library was written; a Nupkg is returned only after
\* finish succeeded and holds the finished archive.
C10_OrderedFailFast == [](C10_State) /\ [][C10_Step]_vars

\* The first of two libraries fails: its entry was started, the second never.
C10_Witness ==
    /\ Returned
    /\ result.tag = "Err"
    /\ result.kind = "WriteLib"
    /\ Len(pkgs) = 2
    /\ Len(entries) = 4
    /\ finishes = 0

====
